---- MODULE Spec2Model ----
(***************************************************************************)
(* A model of BlockWatcher (src/unnamed/part_000) and of processTask       *)
(* (src/unnamed/part_004).                                                 *)
(*                                                                         *)
(* One step of the model is the code that runs between two real            *)
(* suspension points of the single JavaScript timeline: the return of an   *)
(* external getBlock / getChainHead call, the settling of a subscriber     *)
(* callback, the firing of a timer, or a call of the public API.           *)
(* The external source and the subscribers are the environment: what they  *)
(* return is chosen with \E at the step that receives it.                  *)
(***************************************************************************)
EXTENDS Integers, Sequences, FiniteSets, Bags, TLC

\* ------------------------------------------------------------------ bounds
MaxHeight == 2     \* the source serves heights 0..MaxHeight
MaxDepth  == 2     \* largest configured maxReorgDepth
MaxPre    == 2     \* longest preStartBlockState handed to the constructor
MaxSubs   == 2     \* most callbacks registered in either registry
MaxLoops  == 2     \* most start() calls that get past the started-check
MaxFails  == 2     \* most callback invocations that fail in a run
MaxPolls  == 2     \* most failed getBlock calls within one pollBlock

\* ------------------------------------------------------------- data model
Undefined == -1    \* an absent number (startBlock?: number, a null chain head)

Hashes  == {"a", "b"}
Heights == 0..MaxHeight

Block(h, x) == [height |-> h, hash |-> x]

\* null / undefined where the code holds a block
NoBlock == [height |-> Undefined, hash |-> "null"]

\* JavaScript truthiness of an optional number: undefined and 0 are falsy
Truthy(n) == n # Undefined /\ n # 0

TaskErrorHandling == {"retry", "skip"}

\* ------------------------------------------------------- lodash helpers
\* _.reverse: the array with its elements in the opposite order
Reverse(s) == [k \in 1..Len(s) |-> s[Len(s) + 1 - k]]

\* _.last(array) || null
Last(s) == IF Len(s) = 0 THEN NoBlock ELSE s[Len(s)]

\* Array.prototype.find / _.findIndex by height: the first match, 0 if none
FindIndex(s, h) ==
  IF \E k \in 1..Len(s) : s[k].height = h
  THEN CHOOSE k \in 1..Len(s) :
         /\ s[k].height = h
         /\ \A m \in 1..(k - 1) : s[m].height # h
  ELSE 0

\* one insertion of _.sortBy's stable sort: b goes after every element whose
\* height is not larger
RECURSIVE InsertByHeight(_, _)
InsertByHeight(b, s) ==
  IF Len(s) = 0 THEN <<b>>
  ELSE IF s[Len(s)].height <= b.height THEN Append(s, b)
  ELSE Append(InsertByHeight(b, SubSeq(s, 1, Len(s) - 1)), s[Len(s)])

\* _.sortBy(blocks, "height")
RECURSIVE SortByHeight(_)
SortByHeight(s) ==
  IF Len(s) = 0 THEN <<>>
  ELSE InsertByHeight(s[Len(s)], SortByHeight(SubSeq(s, 1, Len(s) - 1)))

\* _.difference(_.range(first, last + 1), heights)
MissingBlocks(s) ==
  { h \in (s[1].height)..(s[Len(s)].height) :
      \A k \in 1..Len(s) : s[k].height # h }

\* ------------------------------------------------------------ constructor
\* a slip in the constructor's last check: the top height compared with
\* startBlock itself
StartBlockMismatchOffByOne(sorted, startBlock) ==
  \/ ~Truthy(startBlock)
  \/ sorted[Len(sorted)].height # startBlock

\* constructor lines 80-83: no start block, or the top height is not the one
\* before it
StartBlockMismatch(sorted, startBlock) ==
  \/ ~Truthy(startBlock)
  \/ sorted[Len(sorted)].height # startBlock - 1

\* The result of `new BlockWatcher(cfg)`: the error thrown ("none" when the
\* watcher is created), the heights the error names, and the initial window.
Constructor(cfg) ==
  IF ~cfg.hasPre
  THEN [error |-> "none", missing |-> {}, currentBlocks |-> <<>>]
  ELSE LET pre    == cfg.preStartBlockState
           sorted == SortByHeight(pre)
       IN  IF sorted # pre
           THEN [error |-> "Blocks must be sorted by height",
                 missing |-> {}, currentBlocks |-> <<>>]
           ELSE IF Len(sorted) = 0
           THEN [error |-> "TypeError",
                 missing |-> {}, currentBlocks |-> <<>>]
           ELSE IF MissingBlocks(sorted) # {}
           THEN [error |-> "Blocks are missing",
                 missing |-> MissingBlocks(sorted), currentBlocks |-> <<>>]
           ELSE IF StartBlockMismatch(sorted, cfg.startBlock)
           THEN [error |-> "Start block must be set",
                 missing |-> {}, currentBlocks |-> <<>>]
           ELSE [error |-> "none", missing |-> {}, currentBlocks |-> pre]

\* every sequence of at most n elements of S
SeqsUpTo(S, n) == UNION { [1..k -> S] : k \in 0..n }

\* the constructor arguments the model draws
AllBlocks == { Block(h, x) : h \in 0..(MaxHeight + 1), x \in Hashes }

CtorConfigs ==
  [ hasPre             : BOOLEAN,
    preStartBlockState : SeqsUpTo(AllBlocks, MaxPre + 1),
    startBlock         : {Undefined} \cup 0..(MaxHeight + 1),
    maxReorgDepth      : 1..MaxDepth,
    taskErrorHandling  : TaskErrorHandling ]

\* the configurations a started watcher is explored from: the accepted ones
\* among those whose seeded blocks all carry one hash (what the window is
\* compared with is chosen freely at every fetch)
RunConfigs ==
  { cfg \in [ hasPre             : BOOLEAN,
              preStartBlockState : SeqsUpTo({ Block(h, "a") : h \in Heights }, MaxPre),
              startBlock         : {Undefined} \cup 1..MaxHeight,
              maxReorgDepth      : 1..MaxDepth,
              taskErrorHandling  : TaskErrorHandling ] :
      /\ Constructor(cfg).error = "none"
      /\ (~cfg.hasPre => cfg.preStartBlockState = <<>>) }

\* ------------------------------------------------------------------ state
VARIABLES
  phase,                 \* "new" before the constructor ran, then "ready" or "failed"
  config,                \* the constructor's argument (immutable afterwards)
  ctorResult,            \* what the constructor returned or threw
  currentBlocks,         \* the observed window
  newBlockCallbacks,     \* registry: callback ids in registration order
  reorgedBlockCallbacks, \* registry: callback ids in registration order
  intervalId,            \* "null" or "timeout"
  loops,                 \* the start()/pollChain activations and where each is suspended
  retries,               \* bag of tasks whose retry timer (processTask's setTimeout) is pending
  fails,                 \* history: number of callback invocations that failed
  lastNew,               \* history: height of the block last passed to new-block subscribers
  atHead,                \* history: what the last isAtChainHead() call polled and returned
  poll                   \* one activation of pollBlock: its position, locals and counts

vars == << phase, config, ctorResult, currentBlocks, newBlockCallbacks,
           reorgedBlockCallbacks, intervalId, loops, retries, fails, lastNew,
           atHead, poll >>

LoopIds == 1..MaxLoops

\* an activation that does not exist (yet)
NoLoop ==
  [ pc         |-> "none",
    startBlock |-> Undefined,   \* pollChain's parameter / start()'s local
    h          |-> Undefined,   \* nextHeight while the fetch is awaited
    nextBlock  |-> NoBlock,     \* pollChain's nextBlock; the block being dispatched
    saved      |-> NoBlock,     \* isBlockReorged's savedBlock
    i          |-> 0,           \* handleDetectedReorg: position of the for-of iterator
    reorged    |-> <<>>,        \* handleDetectedReorg: reorgedBlocks
    j          |-> 0,           \* position in the list being dispatched
    c          |-> 0,           \* position in the callback registry
    invoked    |-> <<>>,        \* history: callbacks invoked in this dispatch
    fired      |-> <<>> ]       \* history: pairs dispatched in this repair pass

\* isAtChainHead() has not been called
\* pollBlock not called
NoPoll ==
  [pc |-> "idle", height |-> Undefined, onchainBlock |-> NoBlock,
   calls |-> 0, failed |-> 0, delays |-> 0]

NoStatus == [head |-> Undefined, result |-> "none"]

NoResult == [error |-> "pending", missing |-> {}, currentBlocks |-> <<>>]

\* ------------------------------------------------------ pollChain, top
\* pollChain lines 100-108: the code from the top of the while loop up to the
\* awaited getBlock(nextHeight); throws when there is no next height.
PollChainTop(sb, blocks) ==
  LET savedChainHead == Last(blocks)
      nextHeight     == IF Truthy(savedChainHead.height)
                        THEN savedChainHead.height + 1
                        ELSE sb
  IN  IF ~Truthy(nextHeight)
      THEN [NoLoop EXCEPT !.pc = "crashed"]
      ELSE [NoLoop EXCEPT !.pc = "fetch", !.startBlock = sb, !.h = nextHeight]

\* isBlockReorged lines 218-230: savedBlock, found by height, before the poll
SavedBlock(blocks, block) == blocks[FindIndex(blocks, block.height)]

\* handleDetectedReorg lines 243-251: _.reverse reverses this.currentBlocks in
\* place; the walk starts at its first element
ReorgWalkStart(sb, reversed) ==
  [NoLoop EXCEPT !.pc = "walk", !.startBlock = sb, !.i = 1,
                 !.saved = SavedBlock(reversed, reversed[1])]

\* handleDetectedReorg lines 250-271: the for-of iterator moves on; the walk
\* ends (and pollChain's loop starts over) when the array is exhausted
WalkAdvance(th, blocks) ==
  IF th.i + 1 > Len(blocks)
  THEN PollChainTop(th.startBlock, blocks)
  ELSE [NoLoop EXCEPT !.pc = "walk", !.startBlock = th.startBlock,
                      !.i = th.i + 1, !.reorged = th.reorged, !.fired = th.fired,
                      !.saved = SavedBlock(blocks, blocks[th.i + 1])]

\* what the external getBlock(height) can give: a block of that height, or
\* nothing (null, or an error that getBlock lines 135-143 turns into null)
GetBlockResults(h) ==
  {NoBlock} \cup (IF h \in Heights THEN { Block(h, x) : x \in Hashes } ELSE {})

\* a slip in processTask: the retry is armed whatever the mode
processTaskAnyMode(task, ok, mode) ==
  IF ~ok THEN SetToBag({task}) ELSE EmptyBag

\* a slip in processTask: the retry is armed in the other mode
processTaskWrongMode(task, ok, mode) ==
  IF ~ok /\ mode = "skip" THEN SetToBag({task}) ELSE EmptyBag

\* processTask lines 7-26: the retry timers the settled attempt leaves behind
processTask(task, ok, mode) ==
  IF ~ok /\ mode = "retry" THEN SetToBag({task}) ELSE EmptyBag

\* how a subscriber's callback may settle: it may always succeed; the failures
\* of a run are bounded
MaySettle(ok) == ok \/ fails < MaxFails

\* the task processTask is given: callback cb applied to the event's blocks
Task(kind, cb, block, pre) ==
  [kind |-> kind, cb |-> cb, block |-> block, pre |-> pre]

\* ------------------------------------------------------------ constructor
InitCtor ==
  /\ phase = "new"
  /\ config \in CtorConfigs
  /\ (~config.hasPre => config.preStartBlockState = <<>>)
  /\ ctorResult = NoResult
  /\ currentBlocks = <<>>
  /\ newBlockCallbacks = <<>>
  /\ reorgedBlockCallbacks = <<>>
  /\ intervalId = "null"
  /\ loops = [t \in LoopIds |-> NoLoop]
  /\ retries = EmptyBag
  /\ fails = 0
  /\ lastNew = Undefined
  /\ atHead = NoStatus
  /\ poll = NoPoll

\* new BlockWatcher(config), lines 32-91
Construct ==
  /\ phase = "new"
  /\ ctorResult' = Constructor(config)
  /\ phase' = IF ctorResult'.error = "none" THEN "ready" ELSE "failed"
  /\ currentBlocks' = ctorResult'.currentBlocks
  /\ UNCHANGED << config, newBlockCallbacks, reorgedBlockCallbacks, intervalId,
                  loops, retries, fails, lastNew, atHead, poll >>

NextCtor == Construct

SpecCtor == InitCtor /\ [][NextCtor]_vars

\* ----------------------------------------------------------------- watcher
\* the state after a successful construction
Init ==
  /\ phase = "ready"
  /\ config \in RunConfigs
  /\ ctorResult = Constructor(config)
  /\ currentBlocks = ctorResult.currentBlocks
  /\ newBlockCallbacks = <<>>
  /\ reorgedBlockCallbacks = <<>>
  /\ intervalId = "null"
  /\ loops = [t \in LoopIds |-> NoLoop]
  /\ retries = EmptyBag
  /\ fails = 0
  /\ lastNew = Undefined
  /\ atHead = NoStatus
  /\ poll = NoPoll

\* onNewBlock(callback), lines 195-197; a callback is named by its position
OnNewBlock ==
  /\ phase = "ready"
  /\ Len(newBlockCallbacks) < MaxSubs
  /\ newBlockCallbacks' = Append(newBlockCallbacks, Len(newBlockCallbacks) + 1)
  /\ UNCHANGED << phase, config, ctorResult, currentBlocks, reorgedBlockCallbacks,
                  intervalId, loops, retries, fails, lastNew, atHead, poll >>

\* onReorgedBlock(callback), lines 199-201
OnReorgedBlock ==
  /\ phase = "ready"
  /\ Len(reorgedBlockCallbacks) < MaxSubs
  /\ reorgedBlockCallbacks' =
       Append(reorgedBlockCallbacks, Len(reorgedBlockCallbacks) + 1)
  /\ UNCHANGED << phase, config, ctorResult, currentBlocks, newBlockCallbacks,
                  intervalId, loops, retries, fails, lastNew, atHead, poll >>

\* start() lines 185-191, once the start block is known: the reorg check of a
\* seeded window, else straight into pollChain(startBlock)
StartResolved(t, sb) ==
  IF Len(currentBlocks) > 0
  THEN /\ currentBlocks' = Reverse(currentBlocks)
       /\ loops' = [loops EXCEPT ![t] = ReorgWalkStart(sb, currentBlocks')]
  ELSE /\ loops' = [loops EXCEPT ![t] = PollChainTop(sb, currentBlocks)]
       /\ UNCHANGED currentBlocks

\* start(), lines 180-183, as the t-th call that is not rejected
Start(t) ==
  /\ phase = "ready"
  /\ IF intervalId # "null"
     THEN UNCHANGED vars                         \* throws "Already started"
     ELSE /\ loops[t].pc = "none"
          /\ \A u \in 1..(t - 1) : loops[u].pc # "none"
          /\ IF Truthy(config.startBlock)
             THEN StartResolved(t, config.startBlock)
             ELSE /\ loops' = [loops EXCEPT ![t] = [NoLoop EXCEPT !.pc = "chainHead"]]
                  /\ UNCHANGED currentBlocks
          /\ UNCHANGED << phase, config, ctorResult, newBlockCallbacks,
                          reorgedBlockCallbacks, intervalId, retries, fails, lastNew, atHead, poll >>

\* what the external getChainHead() can give: a height, or nothing (null, 0,
\* or an error), which getChainHead lines 145-153 throws on
ChainHeadResults == {Undefined} \cup Heights

\* start() line 183: pollChainHead (lines 167-177) returns or throws
StartChainHead(t) ==
  /\ loops[t].pc = "chainHead"
  /\ \E head \in ChainHeadResults :
       IF Truthy(head)
       THEN StartResolved(t, head)
       ELSE /\ loops' = [loops EXCEPT ![t] = [NoLoop EXCEPT !.pc = "rejected"]]
            /\ UNCHANGED currentBlocks
  /\ UNCHANGED << phase, config, ctorResult, newBlockCallbacks,
                  reorgedBlockCallbacks, intervalId, retries, fails, lastNew, atHead, poll >>

\* handleDetectedNewBlock lines 275-279: push, then shift when too long
Pushed(blocks, block, maxReorgDepth) ==
  LET pushed == Append(blocks, block)
  IN  IF Len(pushed) > maxReorgDepth THEN Tail(pushed) ELSE pushed

\* a slip in processNewBlockCallbacks: the iteration starts at the callback
\* registered last
NewBlockDispatchFromLast(block, blocks) ==
  IF Len(newBlockCallbacks) = 0
  THEN PollChainTop(Undefined, blocks)
  ELSE [NoLoop EXCEPT !.pc = "newCb", !.nextBlock = block, !.c = 1,
                      !.invoked = <<newBlockCallbacks[Len(newBlockCallbacks)]>>]

\* processNewBlockCallbacks lines 285-293, entered: the first callback is
\* invoked at once; with no subscriber the next cycle (line 128) starts at once
NewBlockDispatch(block, blocks) ==
  IF Len(newBlockCallbacks) = 0
  THEN PollChainTop(Undefined, blocks)
  ELSE [NoLoop EXCEPT !.pc = "newCb", !.nextBlock = block, !.c = 1,
                      !.invoked = <<newBlockCallbacks[1]>>]

\* pollChain lines 126-131 after the while loop: append and dispatch, or arm
\* the timer
ExitLoop(t, nextBlock) ==
  IF nextBlock # NoBlock
  THEN /\ currentBlocks' = Pushed(currentBlocks, nextBlock, config.maxReorgDepth)
       /\ loops' = [loops EXCEPT ![t] = NewBlockDispatch(nextBlock, currentBlocks')]
       /\ lastNew' = IF Len(newBlockCallbacks) = 0 THEN lastNew ELSE nextBlock.height
       /\ UNCHANGED intervalId
  ELSE /\ intervalId' = "timeout"
       /\ loops' = [loops EXCEPT ![t] = [NoLoop EXCEPT !.pc = "sleep"]]
       /\ UNCHANGED << currentBlocks, lastNew >>

\* pollChain lines 108-118: getBlock(nextHeight) has returned
FetchReturns(t) ==
  /\ loops[t].pc = "fetch"
  /\ \E nextBlock \in GetBlockResults(loops[t].h) :
       IF Len(currentBlocks) > 0
       THEN /\ loops' = [loops EXCEPT ![t] =
                           [NoLoop EXCEPT !.pc = "check",
                                          !.startBlock = loops[t].startBlock,
                                          !.nextBlock = nextBlock,
                                          !.saved = SavedBlock(currentBlocks,
                                                               Last(currentBlocks))]]
            /\ UNCHANGED << currentBlocks, intervalId, lastNew >>
       ELSE ExitLoop(t, nextBlock)
  /\ UNCHANGED << phase, config, ctorResult, newBlockCallbacks,
                  reorgedBlockCallbacks, retries, fails, atHead, poll >>

\* pollChain lines 112-124: isBlockReorged(tail) has returned (pollBlock got a
\* block of that height from the source)
CheckReturns(t) ==
  /\ loops[t].pc = "check"
  /\ \E x \in Hashes :
       IF loops[t].saved.hash # x
       THEN /\ currentBlocks' = Reverse(currentBlocks)
            /\ loops' = [loops EXCEPT ![t] =
                           ReorgWalkStart(loops[t].startBlock, currentBlocks')]
            /\ UNCHANGED << intervalId, lastNew >>
       ELSE ExitLoop(t, loops[t].nextBlock)
  /\ UNCHANGED << phase, config, ctorResult, newBlockCallbacks,
                  reorgedBlockCallbacks, retries, fails, atHead, poll >>

\* pollChain line 130: the timer fires, pollChain() runs without a start block
TimerFires(t) ==
  /\ loops[t].pc = "sleep"
  /\ loops' = [loops EXCEPT ![t] = PollChainTop(Undefined, currentBlocks)]
  /\ UNCHANGED << phase, config, ctorResult, currentBlocks, newBlockCallbacks,
                  reorgedBlockCallbacks, intervalId, retries, fails, lastNew, atHead, poll >>

\* handleDetectedReorg lines 255-260: the slot found by height is replaced
Replaced(blocks, updatedBlock) ==
  LET index == FindIndex(blocks, updatedBlock.height)
  IN  IF index = 0 THEN blocks ELSE [blocks EXCEPT ![index] = updatedBlock]

\* handleDetectedReorg line 259: the clone of the slot found by height
PreReorgBlock(blocks, height) ==
  LET index == FindIndex(blocks, height)
  IN  IF index = 0 THEN NoBlock ELSE blocks[index]

\* handleDetectedReorg lines 262-268: the pair is pushed, and the list is
\* reversed in place by the _.reverse of the dispatch loop
ReorgedBlocks(reorgedBlocks, updatedBlock, preReorgBlock) ==
  Reverse(Append(reorgedBlocks,
                 [updatedBlock |-> updatedBlock, preReorgBlock |-> preReorgBlock]))

\* handleDetectedReorg lines 268-270 and processReorgedBlockCallbacks lines
\* 295-303: the dispatch of the j-th pair of the list is entered
ReorgDispatch(th, j) ==
  [th EXCEPT !.pc = "reorgCb", !.saved = NoBlock, !.j = j, !.c = 1,
             !.invoked = <<reorgedBlockCallbacks[1]>>,
             !.fired = Append(th.fired, th.reorged[j])]

\* handleDetectedReorg lines 251-271: isBlockReorged(block) has returned
WalkReturns(t) ==
  /\ loops[t].pc = "walk"
  /\ \E x \in Hashes :
       LET th      == loops[t]
           updated == Block(th.saved.height, x)
           list    == ReorgedBlocks(th.reorged, updated,
                                    PreReorgBlock(currentBlocks, th.saved.height))
       IN  IF th.saved.hash # x
           THEN /\ currentBlocks' = Replaced(currentBlocks, updated)
                /\ loops' = [loops EXCEPT ![t] =
                               IF Len(reorgedBlockCallbacks) = 0
                               THEN WalkAdvance([th EXCEPT !.reorged = list],
                                                currentBlocks')
                               ELSE ReorgDispatch([th EXCEPT !.reorged = list], 1)]
           ELSE /\ loops' = [loops EXCEPT ![t] =
                               PollChainTop(th.startBlock, currentBlocks)]
                /\ UNCHANGED currentBlocks
  /\ UNCHANGED << phase, config, ctorResult, newBlockCallbacks,
                  reorgedBlockCallbacks, intervalId, retries, fails, lastNew, atHead, poll >>

\* processNewBlockCallbacks lines 285-293: the invoked callback has settled;
\* processTask returns, and the for-of loop moves on
NewBlockCallbackSettles(t) ==
  /\ loops[t].pc = "newCb"
  /\ \E ok \in BOOLEAN :
       LET th   == loops[t]
           task == Task("new", newBlockCallbacks[th.c], th.nextBlock, NoBlock)
       IN  /\ MaySettle(ok)
           /\ fails' = IF ok THEN fails ELSE fails + 1
           /\ retries' = retries (+) processTask(task, ok, config.taskErrorHandling)
           /\ loops' = [loops EXCEPT ![t] =
                          IF th.c < Len(newBlockCallbacks)
                          THEN [th EXCEPT !.c = th.c + 1,
                                          !.invoked = Append(th.invoked,
                                                       newBlockCallbacks[th.c + 1])]
                          ELSE PollChainTop(Undefined, currentBlocks)]
  /\ UNCHANGED << phase, config, ctorResult, currentBlocks, newBlockCallbacks,
                  reorgedBlockCallbacks, intervalId, lastNew, atHead, poll >>

\* processReorgedBlockCallbacks lines 295-303 inside handleDetectedReorg's
\* dispatch loop (lines 268-270): the invoked callback has settled
ReorgCallbackSettles(t) ==
  /\ loops[t].pc = "reorgCb"
  /\ \E ok \in BOOLEAN :
       LET th   == loops[t]
           pair == th.reorged[th.j]
           task == Task("reorg", reorgedBlockCallbacks[th.c],
                        pair.updatedBlock, pair.preReorgBlock)
       IN  /\ MaySettle(ok)
           /\ fails' = IF ok THEN fails ELSE fails + 1
           /\ retries' = retries (+) processTask(task, ok, config.taskErrorHandling)
           /\ loops' = [loops EXCEPT ![t] =
                          IF th.c < Len(reorgedBlockCallbacks)
                          THEN [th EXCEPT !.c = th.c + 1,
                                          !.invoked = Append(th.invoked,
                                                       reorgedBlockCallbacks[th.c + 1])]
                          ELSE IF th.j < Len(th.reorged)
                          THEN ReorgDispatch(th, th.j + 1)
                          ELSE WalkAdvance(th, currentBlocks)]
  /\ UNCHANGED << phase, config, ctorResult, currentBlocks, newBlockCallbacks,
                  reorgedBlockCallbacks, intervalId, lastNew, atHead, poll >>

\* processTask lines 11-19: a retry timer fires and attemptTask runs again
RetryFires(task) ==
  /\ BagIn(task, retries)
  /\ \E ok \in BOOLEAN :
       /\ MaySettle(ok)
       /\ fails' = IF ok THEN fails ELSE fails + 1
       /\ retries' = (retries (-) SetToBag({task})) (+)
                       processTask(task, ok, config.taskErrorHandling)
  /\ UNCHANGED << phase, config, ctorResult, currentBlocks, newBlockCallbacks,
                  reorgedBlockCallbacks, intervalId, loops, lastNew, atHead, poll >>

\* the runs of a watcher on which start() gets past its check once
Next ==
  \/ OnNewBlock
  \/ OnReorgedBlock
  \/ Start(1)
  \/ StartChainHead(1)
  \/ FetchReturns(1)
  \/ CheckReturns(1)
  \/ TimerFires(1)
  \/ WalkReturns(1)
  \/ NewBlockCallbackSettles(1)
  \/ ReorgCallbackSettles(1)
  \/ \E task \in BagToSet(retries) : RetryFires(task)

Spec == Init /\ [][Next]_vars

\* -------------------------------------------------------------- dispatcher
\* The runs of a watcher started at the tip of the source (no seed, startBlock
\* the highest height served): one block is appended, and it is reorged any
\* number of times.
InitDispatch == Init /\ ~config.hasPre /\ config.startBlock = MaxHeight

NextDispatch ==
  \/ OnNewBlock
  \/ OnReorgedBlock
  \/ Start(1)
  \/ FetchReturns(1)
  \/ CheckReturns(1)
  \/ TimerFires(1)
  \/ WalkReturns(1)
  \/ NewBlockCallbackSettles(1)
  \/ ReorgCallbackSettles(1)
  \/ \E task \in BagToSet(retries) : RetryFires(task)

SpecDispatch == InitDispatch /\ [][NextDispatch]_vars

\* a pending timer of processTask fires (Node runs every armed timer)
SpecRetry ==
  /\ InitDispatch
  /\ [][NextDispatch]_vars
  /\ WF_vars(\E task \in BagToSet(retries) : RetryFires(task))

\* ------------------------------------------------------------------ status
\* isAtChainHead(), lines 204-208: false without a block, else whether the
\* last block's height is the head that pollChainHead (lines 167-177) returns;
\* pollChainHead throws when getChainHead does
IsAtChainHead ==
  /\ phase = "ready"
  /\ LET highestBlock == Last(currentBlocks)
     IN  IF highestBlock = NoBlock
         THEN atHead' = [head |-> Undefined, result |-> "false"]
         ELSE \E head \in ChainHeadResults :
                atHead' = [head   |-> head,
                           result |-> IF ~Truthy(head) THEN "error"
                                      ELSE IF highestBlock.height = head THEN "true"
                                      ELSE "false"]
  /\ UNCHANGED << phase, config, ctorResult, currentBlocks, newBlockCallbacks,
                  reorgedBlockCallbacks, intervalId, loops, retries, fails, lastNew,
                  poll >>

\* the runs of a watcher without subscribers whose status is asked for
NextStatus ==
  \/ Start(1)
  \/ StartChainHead(1)
  \/ FetchReturns(1)
  \/ CheckReturns(1)
  \/ TimerFires(1)
  \/ WalkReturns(1)
  \/ IsAtChainHead

SpecStatus == Init /\ [][NextStatus]_vars

\* ----------------------------------------------------------------- restart
\* the runs of a watcher without subscribers on which start() is called again
NextRestart ==
  \/ \E t \in LoopIds : Start(t)
  \/ \E t \in LoopIds : StartChainHead(t)
  \/ \E t \in LoopIds : FetchReturns(t)
  \/ \E t \in LoopIds : CheckReturns(t)
  \/ \E t \in LoopIds : TimerFires(t)
  \/ \E t \in LoopIds : WalkReturns(t)

SpecRestart == Init /\ [][NextRestart]_vars

\* ------------------------------------------------------------- pollBlock
\* the external getBlock throws
Thrown == [height |-> Undefined, hash |-> "error"]

\* getBlock lines 135-143: an error of the external getter becomes null
getBlock(r) == IF r = Thrown THEN NoBlock ELSE r

\* pollBlock(height) lines 155-158 is called: the loop is entered and the first
\* getBlock is awaited
PollBlockCalled ==
  /\ poll.pc = "idle"
  /\ \E h \in Heights :
       poll' = [NoPoll EXCEPT !.pc = "getBlock", !.height = h]
  /\ UNCHANGED << phase, config, ctorResult, currentBlocks, newBlockCallbacks,
                  reorgedBlockCallbacks, intervalId, loops, retries, fails,
                  lastNew, atHead >>

\* pollBlock lines 158-159: getBlock has returned, the delay is awaited
PollBlockGetBlockReturns ==
  /\ poll.pc = "getBlock"
  /\ \E r \in {Thrown} \cup GetBlockResults(poll.height) :
       /\ getBlock(r) = NoBlock => poll.failed < MaxPolls
       /\ poll' = [poll EXCEPT !.pc = "delay",
                               !.onchainBlock = getBlock(r),
                               !.calls = poll.calls + 1,
                               !.failed = IF getBlock(r) = NoBlock
                                          THEN poll.failed + 1 ELSE poll.failed]
  /\ UNCHANGED << phase, config, ctorResult, currentBlocks, newBlockCallbacks,
                  reorgedBlockCallbacks, intervalId, loops, retries, fails,
                  lastNew, atHead >>

\* pollBlock lines 159-164: the delay has elapsed; the loop goes round or the
\* block is returned
PollBlockDelayElapses ==
  /\ poll.pc = "delay"
  /\ poll' = [poll EXCEPT !.delays = poll.delays + 1,
                          !.pc = IF poll.onchainBlock = NoBlock
                                 THEN "getBlock" ELSE "returned"]
  /\ UNCHANGED << phase, config, ctorResult, currentBlocks, newBlockCallbacks,
                  reorgedBlockCallbacks, intervalId, loops, retries, fails,
                  lastNew, atHead >>

\* one call of pollBlock on a created watcher
NextPoll ==
  \/ PollBlockCalled
  \/ PollBlockGetBlockReturns
  \/ PollBlockDelayElapses

SpecPoll == Init /\ [][NextPoll]_vars

\* ------------------------------------------------------------------ repair
\* the reorg check of a seeded window by start() (lines 186-189), with reorg
\* subscribers whose failures are skipped, on a watcher on which start() may
\* be called again; these runs end where the loops wait for their first fetch
InitReorg == Init /\ config.hasPre /\ config.taskErrorHandling = "skip"

NextReorg ==
  \/ OnReorgedBlock
  \/ \E t \in LoopIds : Start(t)
  \/ \E t \in LoopIds : WalkReturns(t)
  \/ \E t \in LoopIds : ReorgCallbackSettles(t)

SpecReorg == InitReorg /\ [][NextReorg]_vars

\* ================================================================== claims
SortedContiguous(blocks) ==
  \A k \in 1..(Len(blocks) - 1) : blocks[k + 1].height = blocks[k].height + 1

HeightsOf(blocks) == { blocks[k].height : k \in 1..Len(blocks) }

HighestHeight(blocks) ==
  CHOOSE h \in HeightsOf(blocks) : \A g \in HeightsOf(blocks) : g <= h

LowestHeight(blocks) ==
  CHOOSE h \in HeightsOf(blocks) : \A g \in HeightsOf(blocks) : h <= g

\* loop t appends a block in this step (handleDetectedNewBlock runs)
AppendStep(t) ==
  /\ loops[t].pc \in {"fetch", "check"}
  /\ loops'[t] # loops[t]
  /\ loops'[t].pc \in {"newCb", "fetch", "crashed"}

\* the task a loop suspended in a dispatch is waiting for
CurrentTask(th) ==
  IF th.pc = "newCb"
  THEN Task("new", newBlockCallbacks[th.c], th.nextBlock, NoBlock)
  ELSE Task("reorg", reorgedBlockCallbacks[th.c],
            th.reorged[th.j].updatedBlock, th.reorged[th.j].preReorgBlock)

\* C1: the window is sorted strictly ascending and contiguous by height in
\* every reachable state. Stated on the steps of a started watcher: no step
\* takes a sorted, contiguous window to one that is not.
C1_WindowStaysSortedContiguous ==
  [][SortedContiguous(currentBlocks) => SortedContiguous(currentBlocks')]_vars

\* C2: in every reachable state, for every accepted configuration, the window
\* holds at most maxReorgDepth blocks.
C2_LengthWithinMaxReorgDepth ==
  Len(currentBlocks) <= config.maxReorgDepth

\* C3: each append of a new block invokes the new-block callbacks exactly once
\* per registered subscriber, with that block, in registration order: the
\* dispatch starts at the first subscriber with the appended block, each
\* settled callback is followed by the next one registered, and the dispatch
\* ends only when the callbacks invoked are the whole registry.
C3_NewBlockDispatchInOrder ==
  [][\A t \in LoopIds :
       /\ AppendStep(t) =>
            IF Len(newBlockCallbacks) = 0
            THEN loops'[t].pc # "newCb"
            ELSE /\ loops'[t].pc = "newCb"
                 /\ loops'[t].nextBlock = Last(currentBlocks')
                 /\ loops'[t].invoked = <<newBlockCallbacks[1]>>
       /\ (loops[t].pc = "newCb" /\ loops'[t].pc = "newCb" /\ loops'[t] # loops[t]) =>
            /\ loops'[t].nextBlock = loops[t].nextBlock
            /\ loops'[t].invoked =
                 SubSeq(newBlockCallbacks, 1, Len(loops[t].invoked) + 1)
       /\ (loops[t].pc = "newCb" /\ loops'[t].pc # "newCb") =>
            loops[t].invoked = newBlockCallbacks
  ]_vars

\* two subscribers, the second invoked after the first for the appended block
C3_Witness ==
  \E t \in LoopIds :
    /\ loops[t].pc = "newCb"
    /\ loops[t].invoked = <<1, 2>>
    /\ loops[t].nextBlock = Last(currentBlocks)

\* C4: the heights passed to the new-block subscribers increase by exactly one
\* from one delivery to the next: none is delivered twice, none is skipped.
C4_NewBlockHeightsConsecutive ==
  [][\A t \in LoopIds :
       (AppendStep(t) /\ loops'[t].pc = "newCb" /\ lastNew # Undefined) =>
          loops'[t].nextBlock.height = lastNew + 1
  ]_vars

\* C5: within one repair pass the reorg callbacks are dispatched once per
\* replaced entry, from the oldest replaced height to the newest: on a window
\* seeded with distinct heights, the heights dispatched so far are strictly
\* increasing.
C5_ReorgDispatchOncePerEntryOldestFirst ==
  Cardinality(HeightsOf(config.preStartBlockState)) = Len(config.preStartBlockState) =>
  \A t \in LoopIds :
    \A a, b \in 1..Len(loops[t].fired) :
      a < b => loops[t].fired[a].updatedBlock.height
                 < loops[t].fired[b].updatedBlock.height

\* C6: isAtChainHead() returns false on an empty window, and otherwise true
\* iff the highest height among the window's blocks is the chain head it got.
C6_IsAtChainHeadIffHighestIsHead ==
  [][(atHead' # atHead /\ atHead'.result \in {"true", "false"}) =>
       ((atHead'.result = "true") <=>
          (Len(currentBlocks) > 0 /\ HighestHeight(currentBlocks) = atHead'.head))
  ]_vars

\* what C7 says of a supplied sequence
HasGap(pre) ==
  Len(pre) > 0 /\ \E h \in LowestHeight(pre)..HighestHeight(pre) : h \notin HeightsOf(pre)

MissingHeights(pre) ==
  { h \in LowestHeight(pre)..HighestHeight(pre) : h \notin HeightsOf(pre) }

SortedAscending(pre) ==
  \A a, b \in 1..Len(pre) : a < b => pre[a].height <= pre[b].height

TopNotBeforeStart(pre, startBlock) ==
  \/ Len(pre) = 0
  \/ startBlock = Undefined
  \/ HighestHeight(pre) # startBlock - 1

\* C7 as stated: construction with a preStartBlockState fails whenever the
\* sequence has a gap (and the error names every missing height), is not
\* sorted ascending, or its highest height is not startBlock - 1.
C7_Original ==
  (phase # "new" /\ config.hasPre) =>
    LET pre == config.preStartBlockState
    IN  /\ HasGap(pre) =>
             /\ phase = "failed"
             /\ ctorResult.missing = MissingHeights(pre)
        /\ ~SortedAscending(pre) => phase = "failed"
        /\ TopNotBeforeStart(pre, config.startBlock) => phase = "failed"

\* C7 as amended: construction fails in each of the three cases; the error
\* names every missing height when the gapped sequence is sorted (an unsorted
\* one is rejected for its order, before the gaps are looked for).
C7_InvalidSeedRejected ==
  (phase # "new" /\ config.hasPre) =>
    LET pre == config.preStartBlockState
    IN  /\ (HasGap(pre) \/ ~SortedAscending(pre)
              \/ TopNotBeforeStart(pre, config.startBlock)) =>
             (phase = "failed" /\ ctorResult.currentBlocks = <<>>)
        /\ (HasGap(pre) /\ SortedAscending(pre)) =>
             /\ ctorResult.error = "Blocks are missing"
             /\ ctorResult.missing = MissingHeights(pre)

\* a sorted sequence with two heights missing was rejected, both named
C7_Witness ==
  /\ phase = "failed"
  /\ config.hasPre
  /\ SortedAscending(config.preStartBlockState)
  /\ HasGap(config.preStartBlockState)
  /\ Cardinality(MissingHeights(config.preStartBlockState)) = 2
  /\ ctorResult.missing = MissingHeights(config.preStartBlockState)

\* C8: once start() has been called, a second call fails and launches no
\* second poll loop: at most one call ever gets past the started-check.
C8_SecondStartRejected ==
  Cardinality({ t \in LoopIds : loops[t].pc # "none" }) <= 1

\* C9: under retry, while a callback has failed and not yet succeeded (its
\* retry is pending), the dispatching loop is still waiting for that callback:
\* no later subscriber has been invoked and no next cycle has begun.
C9_RetryDispatchSequential ==
  config.taskErrorHandling = "retry" =>
    \A task \in BagToSet(retries) :
      \E t \in LoopIds :
        /\ loops[t].pc \in {"newCb", "reorgCb"}
        /\ CurrentTask(loops[t]) = task

\* C10: under retry, a failed invocation leaves the task armed for another
\* attempt, however many attempts have failed; a successful invocation leaves
\* nothing armed, so the task is not invoked again; and with finitely many
\* failures every armed task is eventually done.
C10_RetryUntilSuccess ==
  /\ [][config.taskErrorHandling = "retry" =>
          /\ \A t \in LoopIds :
               (loops[t].pc \in {"newCb", "reorgCb"} /\ loops'[t] # loops[t]) =>
                  retries' = IF fails' = fails + 1
                             THEN retries (+) SetToBag({CurrentTask(loops[t])})
                             ELSE retries
          /\ (loops' = loops /\ fails' = fails + 1) => retries' = retries
          /\ (loops' = loops /\ fails' = fails /\ retries' # retries) =>
               \E task \in BagToSet(retries) :
                 retries' = retries (-) SetToBag({task})
     ]_vars
  /\ (retries # EmptyBag) ~> (retries = EmptyBag)

\* one subscriber, one event: its callback failed, its retry failed, the next
\* retry succeeded and nothing is armed any more
C10_Witness ==
  /\ config.taskErrorHandling = "retry"
  /\ Len(newBlockCallbacks) = 1
  /\ Len(reorgedBlockCallbacks) = 0
  /\ fails = 2
  /\ retries = EmptyBag

C12_ChainHeadFailureNotSurfaced ==
  /\ \A t \in LoopIds : loops[t].pc # "rejected"
  /\ atHead.result # "error"

\* C13: once start() has succeeded polling never stops; on a watcher created
\* without a seed, no poll cycle ever ends the loop by throwing.
C13_PollingNeverStops ==
  ~config.hasPre => \A t \in LoopIds : loops[t].pc # "crashed"

\* C14: no callback invocation, a retry of a failed callback included, runs
\* while a poll cycle is in progress: when a retry timer's attempt runs, no
\* loop is in the middle of a cycle (at its fetch, its tail check, its repair
\* walk or a dispatch).
C14_NoRetryDuringCycle ==
  [][(loops' = loops /\ (retries' # retries \/ fails' # fails)) =>
       \A t \in LoopIds :
         loops[t].pc \notin {"fetch", "check", "walk", "newCb", "reorgCb"}
  ]_vars

\* C15: every poll cycle fetches (highest window height + 1) when the window
\* is not empty, for every highest height including 0. Stated for the cycles
\* that begin on a non-empty window in ascending order.
C15_NextHeightIsHighestPlusOne ==
  [][\A t \in LoopIds :
       ( /\ loops'[t] # loops[t]
         /\ loops'[t].pc \in {"fetch", "crashed"}
         /\ Len(currentBlocks') > 0
         /\ SortedContiguous(currentBlocks') ) =>
           /\ loops'[t].pc = "fetch"
           /\ loops'[t].h = HighestHeight(currentBlocks') + 1
  ]_vars

\* C16: a block that is appended was fetched after the tail check that found
\* the tail unchanged: no append happens at the return of a tail check (with
\* a block fetched before that check).
C16_CheckBeforeFetch ==
  [][\A t \in LoopIds : loops[t].pc = "check" => ~AppendStep(t)]_vars

\* C17: with a non-empty window a cycle leaves its reorg-check loop only
\* right after a check of the window's highest-height entry that found its
\* hash unchanged.
C17_ExitAfterCheckOfHighest ==
  [][\A t \in LoopIds :
       (loops[t].pc = "check" /\ loops'[t].pc \notin {"check", "walk"}) =>
          loops[t].saved.height = HighestHeight(currentBlocks)
  ]_vars

\* the heights of a window, position by position
HeightsAt(blocks) == [k \in 1..Len(blocks) |-> blocks[k].height]

\* C18: a repair pass changes nothing but the hashes of the replaced slots:
\* every step that enters or continues a repair pass leaves the window with
\* the same heights at the same positions.
C18_RepairKeepsHeightsInPlace ==
  [][(\E t \in LoopIds :
        \/ (loops'[t].pc = "walk" /\ loops'[t] # loops[t])
        \/ loops[t].pc \in {"walk", "reorgCb"}) =>
       HeightsAt(currentBlocks') = HeightsAt(currentBlocks)
  ]_vars

\* C20: every accepted preStartBlockState becomes a window whose heights are
\* strictly ascending and contiguous, without a repeated height, and whose
\* highest height is startBlock - 1.
C20_AcceptedSeedIsValidWindow ==
  (phase = "ready" /\ config.hasPre) =>
    /\ SortedContiguous(currentBlocks)
    /\ Cardinality(HeightsOf(currentBlocks)) = Len(currentBlocks)
    /\ Len(currentBlocks) > 0
    /\ Last(currentBlocks).height = config.startBlock - 1

\* C19: pollBlock returns a block after exactly k + 1 getBlock calls and
\* exactly k delays, k being the number of calls that threw or returned null.
C19_PollBlockCallsAndDelays ==
  poll.pc = "returned" =>
    /\ poll.onchainBlock # NoBlock
    /\ poll.onchainBlock.height = poll.height
    /\ poll.calls = poll.failed + 1
    /\ poll.delays = poll.failed

\* the pair a reorg callback is given is of one height and of two hashes
ProperPair(updatedBlock, preReorgBlock) ==
  /\ updatedBlock.height = preReorgBlock.height
  /\ updatedBlock.hash # preReorgBlock.hash

\* C21: every invocation of a reorg callback receives a pair (updatedBlock,
\* preReorgBlock) of one height and of two different hashes. Stated for the
\* windows seeded with distinct heights.
C21_ReorgCallbackPair ==
  Cardinality(HeightsOf(config.preStartBlockState)) = Len(config.preStartBlockState) =>
    \A t \in LoopIds :
      loops[t].pc = "reorgCb" =>
        ProperPair(CurrentTask(loops[t]).block, CurrentTask(loops[t]).pre)

====
